---- MODULE Spec2Model ----
(***************************************************************************)
(* Model of the site-geo-mvp front end: the coordinate resolver            *)
(* (parseLatLon, applyPasted, swap) and the multi-source run() handler of  *)
(* the five iterations of the page (frontend/app.jsx and the four earlier  *)
(* copies of it).                                                          *)
(*                                                                         *)
(* JavaScript values are tagged records:                                   *)
(*   [t |-> "undefined"], [t |-> "null"], [t |-> "nan"],                   *)
(*   [t |-> "str", s |-> <<chars>>],                                       *)
(*   [t |-> "num", neg |-> BOOLEAN, ip |-> Nat, fp |-> <<digits>>]         *)
(* A string is the sequence of its characters; a finite number is its      *)
(* sign, integer part and fraction digits (no trailing zero).              *)
(***************************************************************************)
EXTENDS Integers, Sequences, FiniteSets, TLC

VARIABLES
    variant,    \* which iteration of the page is loaded
    lat, lon,   \* useState: the two coordinate fields (number or string)
    paste,      \* useState: content of the paste box (sequence of chars)
    fields,     \* useState: one result field per source of the page
    err,        \* useState: the error string, as the sequence of its messages
    runs,       \* the invocations of run(), in start order
    uiOps,      \* number of paste / swap / edit events so far (bounded)
    swapTrail,  \* the point before the current series of consecutive swaps
    staleSettles  \* completions of superseded runs so far (bounded)

vars == <<variant, lat, lon, paste, fields, err, runs, uiOps, swapTrail, staleSettles>>

----------------------------------------------------------------------------
(* Bounds of the model *)

MaxRuns == 2      \* run() invocations per behaviour
MaxUiOps == 2     \* paste / swap / edit events per behaviour
MaxStaleSettles == 1  \* completions of superseded runs per behaviour
MaxRawLen == 4    \* length of the arbitrary texts typed in the paste box

----------------------------------------------------------------------------
(* JavaScript values *)

Undefined == [t |-> "undefined"]
Null == [t |-> "null"]
NaN == [t |-> "nan"]
Str(s) == [t |-> "str", s |-> s]
Num(neg, ip, fp) == [t |-> "num", neg |-> neg, ip |-> ip, fp |-> fp]

DigitChars == <<"0", "1", "2", "3", "4", "5", "6", "7", "8", "9">>
IsDigit(c) == \E i \in 1..10 : DigitChars[i] = c
DigitVal(c) == (CHOOSE i \in 1..10 : DigitChars[i] = c) - 1

RECURSIVE DigitsToNat(_)
DigitsToNat(ds) ==
    IF ds = <<>> THEN 0
    ELSE 10 * DigitsToNat(SubSeq(ds, 1, Len(ds) - 1)) + DigitVal(ds[Len(ds)])

RECURSIVE NatToDigits(_)
NatToDigits(n) ==
    IF n < 10 THEN <<DigitChars[n + 1]>>
    ELSE Append(NatToDigits(n \div 10), DigitChars[(n % 10) + 1])

RECURSIVE StripZeros(_)
StripZeros(ds) ==
    IF ds # <<>> /\ ds[Len(ds)] = "0"
    THEN StripZeros(SubSeq(ds, 1, Len(ds) - 1))
    ELSE ds

AllDigits(s) == \A i \in 1..Len(s) : IsDigit(s[i])

IndexOf(s, c) ==
    IF \E i \in 1..Len(s) : s[i] = c
    THEN CHOOSE i \in 1..Len(s) : s[i] = c /\ \A j \in 1..(i - 1) : s[j] # c
    ELSE 0

RECURSIVE Trim(_)
Trim(s) ==
    IF s # <<>> /\ s[1] = " " THEN Trim(Tail(s))
    ELSE IF s # <<>> /\ s[Len(s)] = " " THEN Trim(SubSeq(s, 1, Len(s) - 1))
    ELSE s

\* String.prototype.replace(",", "."): the FIRST comma only.
ReplaceComma(s) ==
    LET i == IndexOf(s, ",")
    IN IF i = 0 THEN s ELSE [s EXCEPT ![i] = "."]

\* Number(string), for strings of digits, '-', '.', ',', ' ' and letters.
StrToNumber(s0) ==
    LET s == Trim(s0)
        neg == s # <<>> /\ s[1] = "-"
        body == IF neg THEN Tail(s) ELSE s
        dot == IndexOf(body, ".")
        ipart == IF dot = 0 THEN body ELSE SubSeq(body, 1, dot - 1)
        fpart == IF dot = 0 THEN <<>> ELSE SubSeq(body, dot + 1, Len(body))
    IN IF s = <<>> THEN Num(FALSE, 0, <<>>)
       ELSE IF AllDigits(ipart) /\ AllDigits(fpart) /\ Len(ipart) + Len(fpart) > 0
       THEN Num(neg, DigitsToNat(ipart), StripZeros(fpart))
       ELSE NaN

\* String(value)
JsString(v) ==
    IF v.t = "str" THEN v.s
    ELSE IF v.t = "num"
    THEN (IF v.neg /\ (v.ip # 0 \/ v.fp # <<>>) THEN <<"-">> ELSE <<>>)
         \o NatToDigits(v.ip)
         \o (IF v.fp = <<>> THEN <<>> ELSE <<".">> \o v.fp)
    ELSE IF v.t = "nan" THEN <<"N", "a", "N">>
    ELSE <<"?">>

IsFiniteOrNaN(v) == v.t \in {"num", "nan"}

IsFinite(v) == v.t = "num"

----------------------------------------------------------------------------
(* CoordinateResolver: parseLatLon *)

\* End (exclusive) of the run of digits that starts at position i.
RECURSIVE DigitsEnd(_, _)
DigitsEnd(s, i) ==
    IF i <= Len(s) /\ IsDigit(s[i]) THEN DigitsEnd(s, i + 1) ELSE i

\* End (exclusive) of the match of /-?\d+(?:[.,]\d+)?/ at position i; i when
\* the pattern does not match there.
MatchEnd(s, i) ==
    LET j == IF s[i] = "-" THEN i + 1 ELSE i
        k == DigitsEnd(s, j)
    IN IF k = j THEN i
       ELSE IF k + 1 <= Len(s) /\ s[k] \in {".", ","} /\ IsDigit(s[k + 1])
       THEN DigitsEnd(s, k + 1)
       ELSE k

\* str.match(/.../g) || [] : all matches from position i on, left to right.
RECURSIVE MatchAll(_, _)
MatchAll(s, i) ==
    IF i > Len(s) THEN <<>>
    ELSE LET e == MatchEnd(s, i)
         IN IF e = i THEN MatchAll(s, i + 1)
            ELSE <<SubSeq(s, i, e - 1)>> \o MatchAll(s, e)

Slice2(ms) == IF Len(ms) <= 2 THEN ms ELSE SubSeq(ms, 1, 2)

Point(la, lo) == [t |-> "point", lat |-> la, lon |-> lo]

parseLatLonSwapped(str) ==
    IF str.t # "str" \/ str.s = <<>> THEN Null
    ELSE LET toks == Slice2(MatchAll(str.s, 1))
             nums == [i \in 1..Len(toks) |-> StrToNumber(ReplaceComma(toks[i]))]
         IN IF Len(nums) # 2 \/ ~(\A i \in 1..Len(nums) : IsFinite(nums[i]))
            THEN Null
            ELSE Point(nums[2], nums[1])

parseLatLonNoCount(str) ==
    IF str.t # "str" \/ str.s = <<>> THEN Null
    ELSE LET toks == Slice2(MatchAll(str.s, 1))
             nums == [i \in 1..Len(toks) |-> StrToNumber(ReplaceComma(toks[i]))]
         IN IF Len(nums) = 0 THEN Null
            ELSE Point(nums[1], nums[Len(nums)])

parseLatLon(str) ==
    IF str.t # "str" \/ str.s = <<>> THEN Null
    ELSE LET toks == Slice2(MatchAll(str.s, 1))
             nums == [i \in 1..Len(toks) |-> StrToNumber(ReplaceComma(toks[i]))]
         IN IF Len(nums) # 2 \/ ~(\A i \in 1..Len(nums) : IsFinite(nums[i]))
            THEN Null
            ELSE Point(nums[1], nums[2])

----------------------------------------------------------------------------
(* The pages and their sources *)

Variants == {"app", "part_000", "part_001", "part_002", "part_003"}

\* The sources a page queries, in the order run() calls them.
SourcesAirportFirst(v) ==
    CASE v = "app" -> <<"airport", "sheet", "plu", "urbanisme", "heritageSummary">>
      [] v = "part_000" -> <<"parcelInfo">>
      [] v = "part_001" -> <<"airport", "sheet", "plu", "urbanisme", "heritage">>
      [] v = "part_002" ->
            <<"airport", "sheet", "plu", "urbanisme", "heritageSummary", "parcelLink">>
      [] v = "part_003" -> <<"airport", "sheet", "plu", "heritage">>

Sources(v) ==
    CASE v = "app" -> <<"sheet", "plu", "urbanisme", "heritageSummary", "airport">>
      [] v = "part_000" -> <<"parcelInfo">>
      [] v = "part_001" -> <<"sheet", "plu", "urbanisme", "heritage", "airport">>
      [] v = "part_002" ->
            <<"sheet", "plu", "urbanisme", "heritageSummary", "parcelLink", "airport">>
      [] v = "part_003" -> <<"sheet", "plu", "heritage", "airport">>

NSources(v) == Len(Sources(v))
SourceIds(v) == {Sources(v)[i] : i \in 1..NSources(v)}

\* What the catch clause of a source does:
\*   "append"  setErr(prev => (prev ? prev + " | " : "") + label + e.message)
\*   "replace" setErr(label + message)
\*   "silent"  nothing
\*   "mark"    setHeritageSummary({ not_available: true, error })
\*   "null"    setParcelLink(null)
Policy(v, s) ==
    IF v = "part_000" THEN "replace"
    ELSE IF v \in {"app", "part_002"} /\ s = "urbanisme" THEN "silent"
    ELSE IF v \in {"app", "part_002"} /\ s = "heritageSummary" THEN "mark"
    ELSE IF v = "part_002" /\ s = "parcelLink" THEN "null"
    ELSE "append"

\* The sources whose failure is not reported in the error string.
IsSilent(v, s) == Policy(v, s) \in {"silent", "mark", "null"}

\* What fetch() and the reading of the body can produce for one request; body
\* names what the body decodes to ("json": an object with every field the page
\* reads, "text": not JSON).
Responses ==
    { [net |-> FALSE, ok |-> TRUE, json |-> TRUE, body |-> "json"],   \* 2xx, JSON
      [net |-> FALSE, ok |-> TRUE, json |-> FALSE, body |-> "text"],  \* 2xx, not JSON
      [net |-> FALSE, ok |-> FALSE, json |-> TRUE, body |-> "json"],  \* non-2xx
      [net |-> TRUE, ok |-> FALSE, json |-> FALSE, body |-> "text"] } \* fetch rejects

\* The JSON objects a source may answer with, by what they lack:
\*   "json"        nothing
\*   "empty"       every field ({})
\*   "no_url"      download_url, gpu_url
\*   "no_lists"    reglement_pdfs, atom_links, layers, closest_airport_latlon
\*   "no_hits"     the hits of the layers (their count is positive)
\*   "no_label"    the label of the hits
\*   "null_layer"  nothing, but an entry of layers is null (malformed)
ShapesOf(s) ==
    CASE s \in {"sheet", "heritage", "parcelInfo", "parcelLink"} ->
            {"json", "empty", "no_url"}
      [] s \in {"plu", "airport"} -> {"json", "empty", "no_lists"}
      [] s = "heritageSummary" ->
            {"json", "empty", "no_lists", "no_hits", "no_label", "null_layer"}
      [] OTHER -> {"json", "empty"}

\* The shapes that only lack fields.
Lacking == {"empty", "no_url", "no_lists", "no_hits", "no_label"}

\* Whether field f of the value is there (a string has none of them).
Has(body, f) ==
    CASE body \in {"json", "null_layer"} -> TRUE
      [] body = "no_url" -> f \notin {"download_url", "gpu_url"}
      [] body = "no_lists" ->
            f \notin {"reglement_pdfs", "atom_links", "layers", "hits",
                      "closest_airport_latlon", "closest_airport_lonlat"}
      [] body = "no_hits" -> f # "hits"
      [] body = "no_label" -> f # "label"
      [] OTHER -> FALSE

Value(body) == [tag |-> "value", body |-> body]
Throw == [tag |-> "throw", body |-> "none"]

fetchJSON(v, resp) ==
    IF resp.net THEN Throw
    ELSE IF ~resp.ok THEN Throw
    ELSE IF v = "part_003"
    THEN (IF resp.json THEN Value(resp.body) ELSE Throw)
    ELSE (IF resp.json THEN Value(resp.body) ELSE Value("text"))

\* Result fields
Payload(r, body) == [t |-> "payload", run |-> r, body |-> body]
NotAvailable(r) == [t |-> "not_available", run |-> r, body |-> "none"]

\* Messages of the error string
SourceError(s, r) == [kind |-> "source", src |-> s, run |-> r]
PasteInvalid == [kind |-> "paste", src |-> "none", run |-> 0]
CoordsInvalid == [kind |-> "coords", src |-> "none", run |-> 0]

\* The run() prologue: setSheet(null); setPlu(null); ...
ResetFieldsKeepSilent(v, f) ==
    [s \in DOMAIN f |-> IF Policy(v, s) = "silent" THEN f[s] ELSE Null]

ResetFields(v, f) == [s \in DOMAIN f |-> Null]

\* try-branch of source s in run r: setX(await fetchJSON(...))
OnSuccessNextField(v, s, r, body, f) ==
    LET i == CHOOSE k \in 1..NSources(v) : Sources(v)[k] = s
        x == Sources(v)[IF i < NSources(v) THEN i + 1 ELSE i]
    IN [f EXCEPT ![x] = Payload(r, body)]

OnSuccess(v, s, r, body, f) == [f EXCEPT ![s] = Payload(r, body)]

\* catch-branch of source s in run r: the new result fields ...
FieldsOnFailureClearsAll(v, s, r, f) == [x \in DOMAIN f |-> Null]

FieldsOnFailure(v, s, r, f) ==
    CASE Policy(v, s) = "mark" -> [f EXCEPT ![s] = NotAvailable(r)]
      [] Policy(v, s) = "null" -> [f EXCEPT ![s] = Null]
      [] OTHER -> f

\* ... and the new error string.
ErrOnFailureAlways(v, s, r, e) == Append(e, SourceError(s, r))

ErrOnFailure(v, s, r, e) ==
    CASE Policy(v, s) = "append" -> Append(e, SourceError(s, r))
      [] Policy(v, s) = "replace" -> <<SourceError(s, r)>>
      [] OTHER -> e

\* What the section of source s displays for the value x of its state:
\*   "none"           "Aucune requête effectuée."
\*   "answered"       the block of the answer
\*   "not_available"  the notice of the heritage summary
\*   "hidden"         the page has no section for the source
\*   "throws"         the rendering raises a TypeError
Render(v, s, x) ==
    LET truthy == x.t # "null"
    IN CASE s \in {"parcelInfo", "parcelLink"} ->
              (IF truthy /\ Has(x.body, "gpu_url") THEN "answered" ELSE "none")
         [] v = "part_002" /\ s \in {"urbanisme", "heritageSummary"} -> "hidden"
         [] s = "heritageSummary" ->
              (IF ~truthy THEN "none"
               ELSE IF x.t = "not_available" THEN "not_available"
               ELSE IF Has(x.body, "layers") /\ x.body = "null_layer" THEN "throws"
               ELSE "answered")
         [] OTHER -> (IF truthy THEN "answered" ELSE "none")

\* Whether the exception leaves the catch clause of source s: every call of
\* run() sits in its own try/catch whose handler does not throw.
CatchRethrowsRequired(v, s) == ~IsSilent(v, s)

CatchRethrowsSilent(v, s) == IsSilent(v, s)

CatchRethrows(v, s) == FALSE

\* swap: const a = lon; setLon(lat); setLat(a);
SwapPointNoTemp(la, lo) == [lat |-> la, lon |-> la]

SwapPoint(la, lo) == [lat |-> lo, lon |-> la]

\* Number(String(x).replace(",", "."))
FieldNumber(x) == StrToNumber(ReplaceComma(JsString(x)))

----------------------------------------------------------------------------
(* Inputs *)

\* Texts pasted or typed while runs are going on.
MainTexts == { <<"4", ",", "5", " ", "2">>, <<"x">> }

\* Contents given to the Lat / Lon inputs (e.target.value is a string).
EditTexts == { <<"3", ",", "5">>, <<"x">>, <<>> }

\* Texts made of two well-formed numbers and a separator.
IntParts == { <<"4">>, <<"1", "2">> }
FracParts == { <<>>, <<".", "5">>, <<",", "5">> }
Separators == { <<" ">>, <<",">>, <<";">>, <<",", " ">>, <<";", " ">> }
NumberSpecs == [neg : BOOLEAN, ip : IntParts, frac : FracParts]

NumberText(n) == (IF n.neg THEN <<"-">> ELSE <<>>) \o n.ip \o n.frac
NumberValue(n) ==
    Num(n.neg, DigitsToNat(n.ip), IF n.frac = <<>> THEN <<>> ELSE Tail(n.frac))

WellFormed ==
    { [first |-> a, sep |-> sp, second |-> b,
       text |-> NumberText(a) \o sp \o NumberText(b)] :
      a \in NumberSpecs, sp \in Separators, b \in NumberSpecs }

\* Arbitrary texts over a small alphabet.
RawChars == {"1", "-", ".", ",", " ", "x"}
RawTexts == UNION { [1..n -> RawChars] : n \in 0..MaxRawLen }

TypedTexts == RawTexts \cup { w.text : w \in WellFormed }

----------------------------------------------------------------------------
(* State *)

NoTrail == [n |-> 0, lat |-> Null, lon |-> Null]

InitLat == Num(FALSE, 48, <<"8", "5", "6", "6">>)
InitLon == Num(FALSE, 2, <<"3", "5", "2", "2">>)

InitPage(v) ==
    /\ variant = v
    /\ lat = InitLat
    /\ lon = InitLon
    /\ fields = [s \in SourceIds(v) |-> Null]
    /\ err = <<>>
    /\ runs = <<>>
    /\ uiOps = 0
    /\ swapTrail = NoTrail
    /\ staleSettles = 0

Init ==
    /\ \E v \in Variants : InitPage(v)
    /\ paste = <<>>

\* The pages loaded for the interleavings of a run with pastes, swaps and
\* edits: the handlers of the five iterations are the same code, so the latest
\* page and the single-source one stand for all.
UiVariants == {"app", "part_000"}

InitUi ==
    /\ \E v \in UiVariants : InitPage(v)
    /\ paste = <<>>

\* The resolver alone: the paste box holds any typed text.
InitResolver ==
    /\ InitPage("app")
    /\ paste \in TypedTexts

----------------------------------------------------------------------------
(* CoordinateResolver: the handlers *)

\* applyPasted(text): parseLatLon(text ?? paste), then the setters.
applyPasted(text) ==
    LET arg == IF text.t \in {"undefined", "null"} THEN Str(paste) ELSE text
        parsed == parseLatLon(arg)
    IN IF parsed = Null
       THEN /\ err' = <<PasteInvalid>>
            /\ UNCHANGED <<lat, lon, swapTrail>>
       ELSE /\ lat' = parsed.lat
            /\ lon' = parsed.lon
            /\ err' = <<>>
            /\ swapTrail' = NoTrail

\* The "Appliquer" button: applyPasted()
Appliquer ==
    /\ uiOps < MaxUiOps
    /\ uiOps' = uiOps + 1
    /\ applyPasted(Undefined)
    /\ UNCHANGED <<variant, paste, fields, runs, staleSettles>>

\* onPaste: if (text) { setPaste(text); applyPasted(text); }
PasteEvent ==
    /\ uiOps < MaxUiOps
    /\ uiOps' = uiOps + 1
    /\ \E text \in MainTexts :
          /\ text # <<>>
          /\ paste' = text
          /\ applyPasted(Str(text))
    /\ UNCHANGED <<variant, fields, runs, staleSettles>>

\* onChange of the paste box: setPaste(e.target.value)
TypePaste ==
    /\ uiOps < MaxUiOps
    /\ uiOps' = uiOps + 1
    /\ \E text \in MainTexts : paste' = text
    /\ UNCHANGED <<variant, lat, lon, fields, err, runs, swapTrail, staleSettles>>

\* The swap button.
Swap ==
    /\ uiOps < MaxUiOps
    /\ uiOps' = uiOps + 1
    /\ LET p == SwapPoint(lat, lon)
       IN /\ lat' = p.lat
          /\ lon' = p.lon
    /\ swapTrail' = IF swapTrail.n = 0
                    THEN [n |-> 1, lat |-> lat, lon |-> lon]
                    ELSE [swapTrail EXCEPT !.n = @ + 1]
    /\ UNCHANGED <<variant, paste, fields, err, runs, staleSettles>>

\* onChange of the Lat input: setLat(e.target.value)
EditLat ==
    /\ uiOps < MaxUiOps
    /\ uiOps' = uiOps + 1
    /\ \E s \in EditTexts : lat' = Str(s)
    /\ swapTrail' = NoTrail
    /\ UNCHANGED <<variant, lon, paste, fields, err, runs, staleSettles>>

\* onChange of the Lon input: setLon(e.target.value)
EditLon ==
    /\ uiOps < MaxUiOps
    /\ uiOps' = uiOps + 1
    /\ \E s \in EditTexts : lon' = Str(s)
    /\ swapTrail' = NoTrail
    /\ UNCHANGED <<variant, lat, paste, fields, err, runs, staleSettles>>

----------------------------------------------------------------------------
(* MultiSourceAggregator: run() *)

\* The query of a request of run(): { lon: lonNum, lat: latNum }, the constants
\* of the invocation rn, whatever the Lat and Lon fields (la, lo) hold by now.
RequestPointFromFields(rn, la, lo) == [lat |-> FieldNumber(la), lon |-> FieldNumber(lo)]

RequestPoint(rn, la, lo) == [lat |-> rn.lat, lon |-> rn.lon]

\* One invocation of run():
\*   status       "running", "settled" (returned after its last source),
\*                "rejected" (returned at the validation), "thrown" (left by an
\*                exception), "returned" (finished before a later run began)
\*   pc           index of the source whose request is in flight
\*   lat, lon     latNum, lonNum
\*   req          the point carried by the request in flight
\*   out          what each call of the run produced: "pending", "ok", "fail"
\*                (kept for the latest run only)
\*   doneAtStart  the earlier runs that had finished when this one began
\*   fullAtStart  every result field held a payload when this one began
NewRun(valid, la, lo, done, full) ==
    [ status |-> IF valid THEN "running" ELSE "rejected",
      pc |-> IF valid THEN 1 ELSE 0,
      lat |-> la, lon |-> lo,
      req |-> IF valid THEN [lat |-> la, lon |-> lo] ELSE Null,
      out |-> [s \in SourceIds(variant) |-> "pending"],
      doneAtStart |-> done,
      fullAtStart |-> full ]

\* What is remembered of the earlier runs once a new one begins: a run still
\* in flight keeps its position and its point, a finished one nothing.
Retire(rs) ==
    [q \in DOMAIN rs |->
        IF rs[q].status = "running"
        THEN [rs[q] EXCEPT !.out = [s \in SourceIds(variant) |-> "pending"],
                           !.doneAtStart = {}, !.fullAtStart = FALSE]
        ELSE [rs[q] EXCEPT !.status = "returned", !.pc = 0,
                           !.lat = Null, !.lon = Null, !.req = Null,
                           !.out = [s \in SourceIds(variant) |-> "pending"],
                           !.doneAtStart = {}, !.fullAtStart = FALSE]]

\* The "Lancer" button: run() up to its first await. The resets and the
\* validation run in one event handler; the first request is then in flight.
StartRun ==
    /\ Len(runs) < MaxRuns
    /\ LET lonNum == FieldNumber(lon)
           latNum == FieldNumber(lat)
           valid == IsFinite(lonNum) /\ IsFinite(latNum)
           done == {q \in 1..Len(runs) : runs[q].status # "running"}
           full == \A s \in SourceIds(variant) : fields[s].t = "payload"
       IN /\ fields' = ResetFields(variant, fields)
          /\ err' = IF valid THEN <<>> ELSE <<CoordsInvalid>>
          /\ runs' = Append(Retire(runs), NewRun(valid, latNum, lonNum, done, full))
    /\ UNCHANGED <<variant, lat, lon, paste, uiOps, swapTrail, staleSettles>>

\* Lancer pressed while no run is in flight.
StartRunAlone ==
    /\ \A q \in 1..Len(runs) : runs[q].status # "running"
    /\ StartRun

\* The request in flight of run r completes with resp: the try or the catch
\* branch of its source runs, and run() goes on to the next request (or returns).
Settle(r, resp) ==
    /\ runs[r].status = "running"
    /\ r < Len(runs) => staleSettles < MaxStaleSettles
    /\ staleSettles' = IF r < Len(runs) THEN staleSettles + 1 ELSE staleSettles
    /\ LET i == runs[r].pc
           s == Sources(variant)[i]
           res == fetchJSON(variant, resp)
           next == IF i = NSources(variant) THEN "settled" ELSE "running"
           req == IF i = NSources(variant) THEN Null
                  ELSE RequestPoint(runs[r], lat, lon)
           latest == r = Len(runs)
       IN IF res.tag = "value"
          THEN /\ fields' = OnSuccess(variant, s, r, res.body, fields)
               /\ err' = err
               /\ runs' = [runs EXCEPT ![r].out[s] = IF latest THEN "ok" ELSE @,
                                       ![r].pc = i + 1,
                                       ![r].req = req,
                                       ![r].status = next]
          ELSE /\ fields' = FieldsOnFailure(variant, s, r, fields)
               /\ err' = ErrOnFailure(variant, s, r, err)
               /\ runs' = IF CatchRethrows(variant, s)
                          THEN [runs EXCEPT ![r].out[s] = IF latest THEN "fail" ELSE @,
                                            ![r].req = Null,
                                            ![r].status = "thrown"]
                          ELSE [runs EXCEPT ![r].out[s] = IF latest THEN "fail" ELSE @,
                                            ![r].pc = i + 1,
                                            ![r].req = req,
                                            ![r].status = next]
    /\ UNCHANGED <<variant, lat, lon, paste, uiOps, swapTrail>>

\* Responses whose 2xx bodies are JSON.
JsonResponses == {x \in Responses : x.json \/ ~x.ok}

SettleAny == \E r \in 1..Len(runs) : \E resp \in JsonResponses : Settle(r, resp)

\* 2xx answers whose JSON object may lack fields, and non-2xx answers.
SettleShaped ==
    \E r \in {q \in 1..Len(runs) : runs[q].status = "running"} :
        \E sh \in ShapesOf(Sources(variant)[runs[r].pc]) : \E ok \in BOOLEAN :
            Settle(r, [net |-> FALSE, ok |-> ok, json |-> TRUE, body |-> sh])

\* Any response, 2xx with a body that is not JSON included.
SettleAnyBody == \E r \in 1..Len(runs) : \E resp \in Responses : Settle(r, resp)

----------------------------------------------------------------------------
(* Specifications *)

\* The aggregator: runs started at any time, also while earlier ones are in
\* flight, against a backend whose 2xx bodies are JSON.
Next ==
    \/ StartRun
    \/ SettleAny

Spec == Init /\ [][Next]_vars

\* The resolver: a text typed in the paste box, then Appliquer and swap.
NextResolver ==
    \/ Appliquer
    \/ Swap

SpecResolver == InitResolver /\ [][NextResolver]_vars

\* The whole page, one run at a time, with pastes, swaps and edits between
\* and during the runs.
NextUi ==
    \/ StartRunAlone
    \/ SettleAny
    \/ Appliquer
    \/ PasteEvent
    \/ TypePaste
    \/ Swap
    \/ EditLat
    \/ EditLon

SpecUi == InitUi /\ [][NextUi]_vars

\* One run at a time against a backend that may answer anything.
NextTransport ==
    \/ StartRunAlone
    \/ SettleAnyBody

SpecTransport == Init /\ [][NextTransport]_vars

\* One run at a time against a backend whose JSON answers may lack fields.
NextRender ==
    \/ StartRunAlone
    \/ SettleShaped

SpecRender == Init /\ [][NextRender]_vars

\* The same, when every request is eventually answered (or fails): the
\* continuation of run() after an await is run once the promise is resolved.
SpecLive == Init /\ [][NextTransport]_vars /\ WF_vars(SettleAnyBody)

\* A request of a source other than the first one completes.
SettleLater ==
    \E r \in 1..Len(runs) : \E resp \in Responses :
        /\ runs[r].pc > 1
        /\ Settle(r, resp)

\* The same, when the first source may hang for ever and every request of the
\* other sources is eventually answered.
SpecHang == Init /\ [][NextTransport]_vars /\ WF_vars(SettleLater)

----------------------------------------------------------------------------
(* What the caller can observe, and what the claims are stated with *)

Latest == Len(runs)
SourceIndex(s) == CHOOSE i \in 1..NSources(variant) : Sources(variant)[i] = s

\* The (run, source) pairs whose outcome is on display: in a result field ...
FieldItems ==
    { [run |-> fields[s].run, src |-> s] :
      s \in {x \in SourceIds(variant) : fields[x].t # "null"} }
\* ... or in the error string.
ErrItems ==
    { [run |-> err[i].run, src |-> err[i].src] :
      i \in {j \in 1..Len(err) : err[j].kind = "source"} }
Shown == FieldItems \cup ErrItems

\* The calls of a run that were dispatched.
Attempted(run) ==
    { Sources(variant)[i] :
      i \in 1..(IF run.pc > NSources(variant) THEN NSources(variant) ELSE run.pc) }

\* The error messages a run owes: its failed required sources, in call order.
RECURSIVE FailLog(_, _, _)
FailLog(run, r, i) ==
    IF i = 0 THEN <<>>
    ELSE LET s == Sources(variant)[i]
         IN FailLog(run, r, i - 1)
            \o (IF run.out[s] = "fail" /\ ~IsSilent(variant, s)
                THEN <<SourceError(s, r)>> ELSE <<>>)

\* This step is the return of the latest run after its last source.
LatestSettles ==
    /\ Len(runs) > 0
    /\ Len(runs') = Len(runs)
    /\ runs[Latest].status = "running"
    /\ runs'[Latest].status = "settled"

\* This step settles source s of the latest run with a failure.
LatestFails(s) ==
    /\ Len(runs) > 0
    /\ Len(runs') = Len(runs)
    /\ runs[Latest].out[s] = "pending"
    /\ runs'[Latest].out[s] = "fail"

\* This step settles source s of the latest run with a value.
LatestSucceeds(s) ==
    /\ Len(runs) > 0
    /\ Len(runs') = Len(runs)
    /\ runs[Latest].out[s] = "pending"
    /\ runs'[Latest].out[s] = "ok"

----------------------------------------------------------------------------
(* C1 *)

\* C1: a run that passed the validation is never left by an exception of a
\* source call: whatever calls fail, it stays on a registered source while in
\* flight, and when it has returned every registered source was called.
RunNeverAborts ==
    \A r \in 1..Len(runs) :
        /\ runs[r].status # "thrown"
        /\ runs[r].status = "running" => runs[r].pc \in 1..NSources(variant)
        /\ runs[r].status = "settled" =>
              /\ Attempted(runs[r]) = SourceIds(variant)
              /\ r = Latest => \A s \in SourceIds(variant) : runs[r].out[s] # "pending"

\* A run of app.jsx returned with every one of its five calls failed.
AllCallsFailedWitness ==
    /\ variant = "app"
    /\ Len(runs) > 0
    /\ runs[Latest].status = "settled"
    /\ \A s \in SourceIds(variant) : runs[Latest].out[s] = "fail"

----------------------------------------------------------------------------
(* C2 *)

\* C2: when a run returns after its last source, the error string holds
\* exactly the messages of the failed required sources of that run, in call
\* order, and nothing else.
ErrorLogExactAtSettle ==
    [][LatestSettles =>
          err' = FailLog(runs'[Latest], Latest, NSources(variant))]_vars

----------------------------------------------------------------------------
(* C3 *)

\* C3: when a run over K sources returns with J failed calls, the result has
\* K entries, the K-J sources whose call returned hold the payload of that
\* call, and the J others hold no payload.
ResultMatchesCalls ==
    [][LatestSettles =>
          /\ DOMAIN fields' = SourceIds(variant)
          /\ \A s \in SourceIds(variant) :
                /\ runs'[Latest].out[s] = "ok" =>
                      fields'[s].t = "payload" /\ fields'[s].run = Latest
                /\ runs'[Latest].out[s] = "fail" => fields'[s].t # "payload"]_vars

----------------------------------------------------------------------------
(* C4 *)

----------------------------------------------------------------------------
(* C5 *)

\* C5: nothing on display comes from a superseded run: every result and
\* every error message shown belongs to the latest run.
NoStaleOutcomeShown == \A it \in Shown : it.run = Latest

----------------------------------------------------------------------------
(* C6 *)

NoUnsettledShown ==
    /\ \A i \in 1..NSources(variant) :
          LET f == fields[Sources(variant)[i]]
          IN f.t # "null" /\ runs[f.run].status = "running" => i < runs[f.run].pc
    /\ \A j \in 1..Len(err) :
          err[j].kind = "source" /\ runs[err[j].run].status = "running" =>
              \E i \in 1..(runs[err[j].run].pc - 1) : Sources(variant)[i] = err[j].src

----------------------------------------------------------------------------
(* C7 *)

\* C7: once a run has begun, nothing of a run that had finished before it
\* began is on display: no payload, no not-available value, no error message.
FreshResultPerRun ==
    \A r \in 1..Len(runs) :
        \A q \in runs[r].doneAtStart :
            \A it \in Shown : it.run # q

\* A second run began when the first had filled every field, and returned
\* with all its calls failed, the silent ones included.
SecondRunWitness ==
    /\ variant \in {"app", "part_002"}
    /\ Len(runs) = 2
    /\ runs[2].doneAtStart = {1}
    /\ runs[2].fullAtStart
    /\ runs[2].status = "settled"
    /\ \A s \in SourceIds(variant) : runs[2].out[s] = "fail"

----------------------------------------------------------------------------
(* C8 *)

\* The readings of the typed text as two well-formed numbers and a separator.
Readings == {w \in WellFormed : w.text = paste}

Expected(w) == Point(NumberValue(w.first), NumberValue(w.second))

\* Appliquer has been pressed once on the typed text, and nothing else.
Applied == uiOps = 1 /\ swapTrail.n = 0

\* C8 (as claimed): for every text of two well-formed numbers separated by a
\* space, a comma or a semicolon, parseLatLon returns the first as lat and
\* the second as lon.
ParsesEveryWellFormedText ==
    \A w \in Readings : parseLatLon(Str(paste)) = Expected(w)

\* A lone comma between an integer and an unsigned number: the pattern takes
\* it for a decimal comma.
CommaJoins(w) == w.first.frac = <<>> /\ w.sep = <<",">> /\ ~w.second.neg

\* C8 (amended): the same, except when the separator is a lone comma that
\* follows an integer first number and precedes an unsigned second number;
\* Appliquer then puts the two numbers in the Lat and Lon fields in that
\* order and clears the error string.
ParsesWellFormedText ==
    \A w \in Readings :
        ~CommaJoins(w) =>
            /\ parseLatLon(Str(paste)) = Expected(w)
            /\ Applied => lat = NumberValue(w.first) /\ lon = NumberValue(w.second)
                          /\ err = <<>>

\* "12,5;-4,5" was applied: lat 12.5, lon -4.5, the larger number first.
ParsedWitness ==
    /\ paste = <<"1", "2", ",", "5", ";", "-", "4", ",", "5">>
    /\ Applied
    /\ lat = Num(FALSE, 12, <<"5">>)
    /\ lon = Num(TRUE, 4, <<"5">>)

----------------------------------------------------------------------------
(* C9 *)

\* The number of maximal runs of digits of a text.
DigitRuns(s) ==
    Cardinality({i \in 1..Len(s) : IsDigit(s[i]) /\ (i = 1 \/ ~IsDigit(s[i - 1]))})

\* C9: parseLatLon returns null for an absent or empty input and for a text
\* with fewer than two numeric matches; it returns a point only for a text
\* with at least two numeric matches, the first two converted to finite
\* numbers; Appliquer on a rejected text reports it and leaves Lat and Lon.
RejectsFewerThanTwoNumbers ==
    LET ms == MatchAll(paste, 1)
        p == parseLatLon(Str(paste))
    IN /\ parseLatLon(Null) = Null
       /\ parseLatLon(Undefined) = Null
       /\ paste = <<>> => p = Null
       /\ Len(ms) < 2 => p = Null
       /\ DigitRuns(paste) < 2 => p = Null
       /\ p # Null =>
             /\ Len(ms) >= 2
             /\ p.lat = StrToNumber(ReplaceComma(ms[1])) /\ IsFinite(p.lat)
             /\ p.lon = StrToNumber(ReplaceComma(ms[2])) /\ IsFinite(p.lon)
       /\ Applied /\ p = Null =>
             err = <<PasteInvalid>> /\ lat = InitLat /\ lon = InitLon

\* A text with a single number ("x1.1") was applied and rejected.
OneNumberRejectedWitness ==
    /\ paste = <<"x", "1", ".", "1">>
    /\ Applied
    /\ err = <<PasteInvalid>>
    /\ lat = InitLat
    /\ lon = InitLon

----------------------------------------------------------------------------
(* C10 *)

\* C10: after an odd number of consecutive swaps Lat and Lon hold each
\* other's value of before the first one; after an even number they hold
\* their own again.
SwapInvolution ==
    swapTrail.n > 0 =>
        IF swapTrail.n % 2 = 1
        THEN lat = swapTrail.lon /\ lon = swapTrail.lat
        ELSE lat = swapTrail.lat /\ lon = swapTrail.lon

\* A pasted point was swapped twice.
SwappedTwiceWitness ==
    /\ swapTrail.n = 2
    /\ swapTrail.lat # swapTrail.lon
    /\ lat = swapTrail.lat
    /\ lon = swapTrail.lon

----------------------------------------------------------------------------
(* C11 *)

\* This step is an invocation of run().
RunInvoked == Len(runs') = Len(runs) + 1

\* The Lat or the Lon field does not convert to a finite number.
FieldsNotFinite == FieldNumber(lat).t # "num" \/ FieldNumber(lon).t # "num"

\* C11: when run() is invoked and the Lat or the Lon field, its first ','
\* replaced by '.', does not convert to a finite number, the invocation
\* returns at the validation: the error string is the validation message, no
\* request is dispatched, every result field is empty; the invocation never
\* dispatches a request or displays anything later. Otherwise it dispatches
\* the first request, with the converted numbers.
RejectsNonFiniteSubmission ==
    [][/\ RunInvoked /\ FieldsNotFinite =>
             /\ err' = <<CoordsInvalid>>
             /\ \A s \in SourceIds(variant) : fields'[s] = Null
             /\ runs'[Len(runs')].status = "rejected"
             /\ runs'[Len(runs')].pc = 0
             /\ runs'[Len(runs')].req = Null
       /\ RunInvoked /\ ~FieldsNotFinite =>
             /\ runs'[Len(runs')].status = "running"
             /\ runs'[Len(runs')].req =
                   [lat |-> FieldNumber(lat), lon |-> FieldNumber(lon)]
             /\ lat = Str(<<"3", ",", "5">>) =>
                   runs'[Len(runs')].req.lat = Num(FALSE, 3, <<"5">>)
       /\ \A r \in 1..Len(runs) :
             runs[r].status \in {"rejected", "returned"} =>
                 /\ runs'[r].status \in {"rejected", "returned"}
                 /\ runs'[r].pc = 0
                 /\ runs'[r].req = Null
       /\ \A it \in Shown' : runs'[it.run].status # "rejected"]_vars

\* Lancer was pressed with "x" in the Lat field: the submission was rejected.
RejectedWitness ==
    /\ lat = Str(<<"x">>)
    /\ Len(runs) > 0
    /\ runs[Latest].status = "rejected"
    /\ err = <<CoordsInvalid>>
    /\ \A s \in SourceIds(variant) : fields[s] = Null

----------------------------------------------------------------------------
(* C12 *)

\* C12: every call ends in a decoded payload or in a failure, and a call that
\* ends in a network error, a non-2xx status or a 2xx body that is not JSON
\* is a failure: a result field that holds a payload holds decoded JSON, and a
\* source of the latest run recorded as answered holds the payload of that run.
MalformedBodyNeverSuccess ==
    /\ \A resp \in Responses :
          fetchJSON(variant, resp).tag \in {"value", "throw"}
    /\ \A s \in SourceIds(variant) :
          /\ fields[s].t = "payload" => fields[s].body = "json"
          /\ Len(runs) > 0 /\ runs[Latest].out[s] = "ok" =>
                fields[s] = Payload(Latest, "json")

----------------------------------------------------------------------------
(* C13 *)

\* C13: the latency of one source does not block the others: when the
\* request of the first source of a run hangs and the other sources answer,
\* the second source is still called and its outcome recorded.
LaterSourcesNotBlocked ==
    \A r \in 1..MaxRuns :
        [](Len(runs) >= r /\ runs[r].status = "running" /\ NSources(variant) > 1
             => <>(Len(runs) >= r /\ runs[r].pc > 2))

----------------------------------------------------------------------------
(* C14 *)

\* This step is the return of run r after its last source.
Completes(r) ==
    /\ Len(runs) >= r
    /\ Len(runs') = Len(runs)
    /\ runs[r].status = "running"
    /\ runs'[r].status # "running"

\* C14: when every request is eventually answered or fails, every run that
\* passed the validation eventually returns, and when it returns every
\* registered source has been called and has settled.
EveryRunCompletes ==
    /\ \A r \in 1..MaxRuns :
          [](Len(runs) >= r /\ runs[r].status = "running"
               => <>(Len(runs) >= r /\ runs[r].status \in {"settled", "returned"}))
    /\ [][\A r \in 1..Len(runs) :
             Completes(r) =>
                 /\ runs'[r].status = "settled"
                 /\ runs[r].pc = NSources(variant)
                 /\ runs'[r].pc = NSources(variant) + 1
                 /\ r = Latest =>
                       \A s \in SourceIds(variant) : runs'[r].out[s] # "pending"]_vars

\* The second run of part_002 returned, some of its six calls failed.
CompletedWitness ==
    /\ variant = "part_002"
    /\ Len(runs) = 2
    /\ runs[2].status = "settled"
    /\ runs[2].out["sheet"] = "ok"
    /\ runs[2].out["plu"] = "fail"
    /\ runs[2].out["parcelLink"] = "fail"
    /\ runs[2].out["airport"] = "ok"

----------------------------------------------------------------------------
(* C15 *)

\* C15: the point of a run is fixed when it starts: it is the conversion of
\* the Lat and Lon fields at that moment, it does not change while the run is
\* in flight, and every request of the run carries it, whatever pastes, swaps
\* and edits do to the fields meanwhile.
PointFixedAtStart ==
    [][/\ RunInvoked /\ runs'[Len(runs')].status = "running" =>
             /\ runs'[Len(runs')].lat = FieldNumber(lat)
             /\ runs'[Len(runs')].lon = FieldNumber(lon)
             /\ runs'[Len(runs')].req =
                   [lat |-> FieldNumber(lat), lon |-> FieldNumber(lon)]
       /\ \A r \in 1..Len(runs) :
             runs[r].status = "running" /\ runs'[r].status = "running" =>
                 /\ runs'[r].lat = runs[r].lat
                 /\ runs'[r].lon = runs[r].lon
                 /\ runs'[r].req = runs[r].req
                 /\ runs'[r].req = [lat |-> runs[r].lat, lon |-> runs[r].lon]]_vars

\* A run of app.jsx started on the initial point is on its last request, which
\* carries that point, while the fields hold a pasted point, swapped.
EditedInFlightWitness ==
    /\ variant = "app"
    /\ Len(runs) = 1
    /\ runs[1].status = "running"
    /\ runs[1].pc = NSources(variant)
    /\ runs[1].req = [lat |-> InitLat, lon |-> InitLon]
    /\ lat = Num(FALSE, 2, <<>>)
    /\ lon = Num(FALSE, 4, <<"5">>)

----------------------------------------------------------------------------
(* C16 *)

\* C16: a source whose call returned an object that lacks expected fields is
\* rendered without exception, its section shows the block of the answer (not
\* "Aucune requête effectuée."), and no message of it is in the error string.
MissingFieldShownAnswered ==
    \A s \in SourceIds(variant) :
        fields[s].t = "payload" /\ fields[s].body \in Lacking =>
            /\ Render(variant, s, fields[s]) # "throws"
            /\ Render(variant, s, fields[s]) = "answered"
            /\ \A it \in ErrItems : ~(it.src = s /\ it.run = fields[s].run)

----------------------------------------------------------------------------
(* C17 *)

\* The message of source s of run r is in the error string e.
Reported(e, s, r) == \E j \in 1..Len(e) : e[j] = SourceError(s, r)

\* C17: within a run the outcome of a source is set once: as long as no new
\* run is started, a source of the latest run that has settled keeps its
\* recorded outcome, the value of its result field and, for a required
\* failure, its message in the error string.
OutcomeSetOnce ==
    [][Len(runs) > 0 /\ Len(runs') = Len(runs) =>
          \A s \in SourceIds(variant) :
              runs[Latest].out[s] # "pending" =>
                  /\ runs'[Latest].out[s] = runs[Latest].out[s]
                  /\ fields'[s] = fields[s]
                  /\ Reported(err, s, Latest) => Reported(err', s, Latest)]_vars

----------------------------------------------------------------------------
(* C18 *)

\* This step settles the request in flight of run r.
Settles(r) ==
    /\ Len(runs') = Len(runs)
    /\ runs[r].status = "running"
    /\ runs'[r] # runs[r]

\* C18: the step that settles a source changes its own result field only (a
\* success, a silent failure) or the error string only (a required failure,
\* whose message is appended, or replaces the string in part_000); the result
\* fields of the other sources, the Lat and Lon fields and the other runs are
\* left as they were.
SettleChangesOwnOutcomeOnly ==
    [][\A r \in 1..Len(runs) :
          Settles(r) =>
              LET s == Sources(variant)[runs[r].pc]
              IN /\ \A x \in SourceIds(variant) \ {s} : fields'[x] = fields[x]
                 /\ lat' = lat /\ lon' = lon /\ paste' = paste
                 /\ fields' = fields \/ err' = err
                 /\ IsSilent(variant, s) => err' = err
                 /\ err' # err =>
                       /\ ~IsSilent(variant, s)
                       /\ \/ err' = Append(err, SourceError(s, r))
                          \/ variant = "part_000" /\ err' = <<SourceError(s, r)>>
                 /\ \A q \in 1..Len(runs) \ {r} : runs'[q] = runs[q]]_vars

\* A run of app.jsx after the failure of its heritage summary: the payloads of
\* the sheet and of the urbanisme status and the message of the PLU are as
\* they were.
OthersKeptWitness ==
    /\ variant = "app"
    /\ Len(runs) = 1
    /\ runs[1].pc = 5
    /\ fields["sheet"] = Payload(1, "json")
    /\ fields["plu"] = Null
    /\ fields["urbanisme"] = Payload(1, "json")
    /\ fields["heritageSummary"] = NotAvailable(1)
    /\ fields["airport"] = Null
    /\ err = <<SourceError("plu", 1)>>

----------------------------------------------------------------------------
(* C19 *)

\* The order of the calls as the pages write them.
AppOrder == <<"sheet", "plu", "urbanisme", "heritageSummary", "airport">>
Part002Order ==
    <<"sheet", "plu", "urbanisme", "heritageSummary", "parcelLink", "airport">>
CallOrder ==
    CASE variant = "app" -> AppOrder
      [] variant = "part_002" -> Part002Order
      [] variant = "part_000" -> <<"parcelInfo">>
      [] variant = "part_001" -> <<"sheet", "plu", "urbanisme", "heritage", "airport">>
      [] variant = "part_003" -> <<"sheet", "plu", "heritage", "airport">>

\* A run in flight has exactly one request in flight, that of the source at
\* its position; the sources before it have settled, those from it on have not.
OneCallInFlight ==
    \A r \in 1..Len(runs) :
        /\ runs[r].status = "running" =>
              /\ runs[r].pc \in 1..Len(CallOrder)
              /\ runs[r].req # Null
        /\ runs[r].status # "running" => runs[r].req = Null
        /\ r = Latest /\ runs[r].status \in {"running", "settled"} =>
              \A i \in 1..Len(CallOrder) :
                  runs[r].out[CallOrder[i]] # "pending" <=> i < runs[r].pc

\* C19: within a run the sources are called one at a time in the order the
\* page registers them (sheet, plu, urbanisme status, heritage summary, parcel
\* link, airport): one request of the run is in flight at a time, and the step
\* that dispatches the request of a source is the one that settles the source
\* before it.
DispatchStrictlySequential ==
    [][/\ OneCallInFlight'
       /\ \A r \in 1..Len(runs) :
             Settles(r) =>
                 /\ runs'[r].pc = runs[r].pc + 1
                 /\ r = Latest => runs'[r].out[CallOrder[runs[r].pc]] # "pending"]_vars

\* A run of part_002 has its parcel link request in flight: the four sources
\* before it have settled, the airport has not been called.
FifthCallWitness ==
    /\ variant = "part_002"
    /\ Len(runs) = 1
    /\ runs[1].status = "running"
    /\ runs[1].pc = 5
    /\ runs[1].out["heritageSummary"] = "ok"
    /\ runs[1].out["parcelLink"] = "pending"
    /\ runs[1].out["airport"] = "pending"

----------------------------------------------------------------------------
(* C20 *)

\* C20: while a run is in flight, a paste, an Appliquer, a swap or an edit
\* leaves the error string as it was.
UiLeavesErrorLog ==
    [][Len(runs) > 0 /\ runs[Latest].status = "running" /\ uiOps' # uiOps =>
          err' = err]_vars

====
